---- MODULE Spec2Model ----
(***************************************************************************)
(* A model of cornucopia's query-file parser (src/src/parser.rs).          *)
(*                                                                         *)
(* A text is a sequence of characters, each a one-character string; the    *)
(* character "<e9>" stands for U+00E9, whose UTF-8 encoding is two bytes.  *)
(* A parser is an operator of the text and an offset p (the number of      *)
(* characters consumed so far, chumsky's span unit for a &str stream) and  *)
(* yields the offset after the match, or NoMatch.  Alternatives are tried  *)
(* in order, repetitions are greedy and never given back, and a failed     *)
(* attempt leaves the offset where the attempt started.                    *)
(***************************************************************************)
EXTENDS Integers, Sequences, FiniteSets, TLC

VARIABLES
    mode,       \* which entry point this behaviour exercises
    pc,         \* "start" before the call, "done" after it
    body,       \* QuerySql::parser: the SQL text before the terminating ';'
    sql_start,  \* QuerySql::parser: offset of the SQL text in the file
    sql,        \* QuerySql::parser: the QuerySql built, or the panic
    fields_in,  \* parse_nullable_ident: the text handed to it
    fields_out, \* parse_nullable_ident: its result
    input,      \* parse_query_module: the text of the file
    path,       \* parse_query_module: the path of the file
    module,     \* parse_query_module: Ok(ParsedModule), Err(Error) or the panic
    registered_structs, \* name_and_fields: the module's TypeAnnotations
    data_struct,        \* name_and_fields: the QueryDataStruct resolved
    query_name,         \* name_and_fields: the query's name
    name_suffix,        \* name_and_fields: the suffix (None or a text)
    resolved            \* name_and_fields: (fields, name) returned

vars == <<mode, pc, body, sql_start, sql, fields_in, fields_out, input, path,
          module, registered_structs, data_struct, query_name, name_suffix,
          resolved>>

---------------------------------------------------------------------------
(* Characters *)

NoMatch == 0 - 1
None == [none |-> TRUE]

Lower == {"a","b","c","d","e","f","g","h","i","j","k","l","m",
          "n","o","p","q","r","s","t","u","v","w","x","y","z"}
Upper == {"A","B","C","D","E","F","G","H","I","J","K","L","M",
          "N","O","P","Q","R","S","T","U","V","W","X","Y","Z"}
Digit == {"0","1","2","3","4","5","6","7","8","9"}

\* The ASCII order of the characters an identifier is made of.
AsciiOrder ==
    <<"0","1","2","3","4","5","6","7","8","9",
      "A","B","C","D","E","F","G","H","I","J","K","L","M",
      "N","O","P","Q","R","S","T","U","V","W","X","Y","Z",
      "_",
      "a","b","c","d","e","f","g","h","i","j","k","l","m",
      "n","o","p","q","r","s","t","u","v","w","x","y","z">>

Ord(c) == CHOOSE i \in 1..Len(AsciiOrder) : AsciiOrder[i] = c

is_ascii_alphabetic(c) == c \in Lower \cup Upper
is_ascii_alphanumeric(c) == c \in Lower \cup Upper \cup Digit
is_whitespace(c) == c \in {" ", "\t", "\n", "\r"}

\* s[p+1..] starts with the literal lit
just(s, p, lit) ==
    /\ p + Len(lit) <= Len(s)
    /\ \A k \in 1..Len(lit) : s[p + k] = lit[k]

\* filter(..).repeated() / none_of(..).repeated(): the offset after the
\* longest run of characters outside stop
RECURSIVE none_of_repeated(_, _, _)
none_of_repeated(s, p, stop) ==
    IF p < Len(s) /\ s[p + 1] \notin stop
    THEN none_of_repeated(s, p + 1, stop)
    ELSE p

---------------------------------------------------------------------------
(* UTF-8: a String is its bytes, a parser's stream is its characters *)

Utf8Char(c) == IF c = "<e9>" THEN <<"<c3>", "<a9>">> ELSE <<c>>
IsContinuation(b) == b = "<a9>"

RECURSIVE Utf8Encode(_)
Utf8Encode(s) ==
    IF s = <<>> THEN <<>> ELSE Utf8Char(Head(s)) \o Utf8Encode(Tail(s))

RECURSIVE Utf8Decode(_)
Utf8Decode(b) ==
    IF b = <<>> THEN <<>>
    ELSE IF Len(b) >= 2 /\ b[1] = "<c3>" /\ b[2] = "<a9>"
         THEN <<"<e9>">> \o Utf8Decode(Tail(Tail(b)))
         ELSE <<Head(b)>> \o Utf8Decode(Tail(b))

is_char_boundary(b, n) ==
    \/ n = 0
    \/ n = Len(b)
    \/ n < Len(b) /\ ~IsContinuation(b[n + 1])

---------------------------------------------------------------------------
(* Lexical primitives *)

RECURSIVE ident_rest(_, _)
ident_rest(s, p) ==
    IF p < Len(s) /\ (is_ascii_alphanumeric(s[p + 1]) \/ s[p + 1] = "_")
    THEN ident_rest(s, p + 1)
    ELSE p

\* ident(): the offset after the identifier, or NoMatch
ident(s, p) ==
    IF p < Len(s) /\ is_ascii_alphabetic(s[p + 1])
    THEN ident_rest(s, p + 1)
    ELSE NoMatch

\* The Parsed<String> ident() builds for the identifier s[p+1..q]
Parsed(s, p, q) == [start |-> p, end |-> q, value |-> SubSeq(s, p + 1, q)]

\* The equality #[derive(PartialEq)] would give: the spans count too
ParsedEq_derived(a, b) == a = b

\* Parsed::eq compares the values only
ParsedEq(a, b) == a.value = b.value

\* ln(): "\n" is tried first and matches whenever "\n\r" would
ln(s, p) == IF just(s, p, <<"\n">>) THEN p + 1 ELSE NoMatch

RECURSIVE space(_, _)
space(s, p) ==
    IF p < Len(s) /\ is_whitespace(s[p + 1]) /\ s[p + 1] # "\n"
    THEN space(s, p + 1)
    ELSE p

\* One ordinary comment: "--", a next character other than ':' and '!'
\* (looked at, not consumed), then the rest of the line
comment(s, p) ==
    IF /\ just(s, p, <<"-", "-">>)
       /\ p + 2 < Len(s)
       /\ s[p + 3] \notin {":", "!"}
    THEN none_of_repeated(s, p + 2, {"\n"})
    ELSE NoMatch

RECURSIVE blank(_, _)
blank(s, p) ==
    IF p < Len(s) /\ is_whitespace(s[p + 1]) THEN blank(s, p + 1)
    ELSE IF comment(s, p) # NoMatch THEN blank(s, comment(s, p))
    ELSE p

---------------------------------------------------------------------------
(* QuerySql::sql_escaping *)

\* ":bind" between double quotes
constant(s, p) ==
    IF just(s, p, <<"\"">>)
    THEN LET q == none_of_repeated(s, p + 1, {"\""})
         IN IF just(s, q, <<"\"">>) THEN q + 1 ELSE NoMatch
    ELSE NoMatch

\* ':bind'
string(s, p) ==
    IF just(s, p, <<"'">>)
    THEN LET q == none_of_repeated(s, p + 1, {"'"})
         IN IF just(s, q, <<"'">>) THEN q + 1 ELSE NoMatch
    ELSE NoMatch

\* The interior of a C-style string: \' or '' or any character but '
RECURSIVE c_style_interior(_, _)
c_style_interior(s, p) ==
    IF just(s, p, <<"\\", "'">>) \/ just(s, p, <<"'", "'">>)
    THEN c_style_interior(s, p + 2)
    ELSE IF p < Len(s) /\ s[p + 1] # "'"
         THEN c_style_interior(s, p + 1)
         ELSE p

\* E'\':bind\''
c_style_string(s, p) ==
    IF just(s, p, <<"e", "'">>) \/ just(s, p, <<"E", "'">>)
    THEN LET q == c_style_interior(s, p + 2)
         IN IF just(s, q, <<"'">>) THEN q + 1 ELSE NoMatch
    ELSE NoMatch

\* '$', any run of characters but '$', '$'
dollar_tag(s, p) ==
    IF just(s, p, <<"$">>)
    THEN LET q == none_of_repeated(s, p + 1, {"$"})
         IN IF just(s, q, <<"$">>) THEN q + 1 ELSE NoMatch
    ELSE NoMatch

\* A dollar tag, any run of characters but '$', a dollar tag
dollar_quoted(s, p) ==
    LET open == dollar_tag(s, p)
    IN IF open = NoMatch THEN NoMatch
       ELSE dollar_tag(s, none_of_repeated(s, open, {"$"}))

\* An e or E that opens no C-style string: the next character is there
\* and is not a quote
non_c_style_e(s, p) ==
    IF p + 1 < Len(s) /\ s[p + 1] \in {"e", "E"} /\ s[p + 2] # "'"
    THEN p + 1
    ELSE NoMatch

non_binding_sql(s, p) ==
    IF p < Len(s) /\ s[p + 1] \notin {"\"", "'", ":", "$", "e", "E"}
    THEN p + 1
    ELSE NoMatch

\* The alternatives of sql_escaping in the order the code tries them
sql_escaping_item(s, p) ==
    IF c_style_string(s, p) # NoMatch THEN c_style_string(s, p)
    ELSE IF string(s, p) # NoMatch THEN string(s, p)
    ELSE IF constant(s, p) # NoMatch THEN constant(s, p)
    ELSE IF dollar_quoted(s, p) # NoMatch THEN dollar_quoted(s, p)
    ELSE IF non_c_style_e(s, p) # NoMatch THEN non_c_style_e(s, p)
    ELSE non_binding_sql(s, p)

RECURSIVE sql_escaping_repeated(_, _)
sql_escaping_repeated(s, p) ==
    IF sql_escaping_item(s, p) = NoMatch THEN p
    ELSE sql_escaping_repeated(s, sql_escaping_item(s, p))

\* .repeated().at_least(1)
sql_escaping(s, p) ==
    IF sql_escaping_item(s, p) = NoMatch THEN NoMatch
    ELSE sql_escaping_repeated(s, p)

---------------------------------------------------------------------------
(* QuerySql::parse_bind *)

\* just(':').ignore_then(ident()): the offset after the identifier
bind(s, p) ==
    IF just(s, p, <<":">>) THEN ident(s, p + 1) ELSE NoMatch

\* separated_by: after an item, a separator and an item are taken together
\* or not at all
RECURSIVE parse_bind_more(_, _, _)
parse_bind_more(s, p, acc) ==
    LET sep == sql_escaping(s, p)
        end == IF sep = NoMatch THEN NoMatch ELSE bind(s, sep)
    IN IF end = NoMatch THEN acc
       ELSE parse_bind_more(s, end, Append(acc, Parsed(s, sep + 1, end)))

\* allow_leading: an optional separator, then the first item.  The trailing
\* separator consumes text and yields nothing.
parse_bind(s) ==
    LET lead == IF sql_escaping(s, 0) = NoMatch THEN 0 ELSE sql_escaping(s, 0)
        end == bind(s, lead)
    IN IF end = NoMatch THEN <<>>
       ELSE parse_bind_more(s, end, <<Parsed(s, lead + 1, end)>>)

---------------------------------------------------------------------------
(* QuerySql::parser *)

Panic(site) == [tag |-> "Panic", site |-> site]

\* str::cmp: lexicographic on the bytes, a proper prefix first
RECURSIVE StrLess(_, _)
StrLess(a, b) ==
    IF b = <<>> THEN FALSE
    ELSE IF a = <<>> THEN TRUE
    ELSE IF Head(a) = Head(b) THEN StrLess(Tail(a), Tail(b))
    ELSE Ord(Head(a)) < Ord(Head(b))

\* Parsed::cmp compares the values only
RECURSIVE Insert(_, _)
Insert(sorted, x) ==
    IF sorted = <<>> THEN <<x>>
    ELSE IF StrLess(x.value, Head(sorted).value) THEN <<x>> \o sorted
    ELSE <<Head(sorted)>> \o Insert(Tail(sorted), x)

\* sort_unstable(): which of two equal elements comes first is not
\* specified; they differ in their spans only, which nothing reads
RECURSIVE sort_unstable(_)
sort_unstable(v) ==
    IF v = <<>> THEN <<>> ELSE Insert(sort_unstable(Tail(v)), Head(v))

\* dedup(): of each run of equal elements the first is kept
RECURSIVE dedup(_)
dedup(v) ==
    IF Len(v) <= 1 THEN v
    ELSE IF ParsedEq(v[1], v[2]) THEN dedup(<<v[1]>> \o Tail(Tail(v)))
    ELSE <<v[1]>> \o dedup(Tail(v))

\* Lines 211-213 without the sort: dedup() alone, names in order of
\* first appearance
Normalize_unsorted(bind_params) == dedup(bind_params)

\* Lines 211-213
Normalize(bind_params) == dedup(sort_unstable(bind_params))

\* iter().position(|bp| bp == bind_param): the 0-based index of the first
\* equal element, or NoMatch for None
position(v, x) ==
    IF \E i \in 1..Len(v) : ParsedEq(v[i], x)
    THEN (CHOOSE i \in 1..Len(v) :
              /\ ParsedEq(v[i], x)
              /\ \A j \in 1..(i - 1) : ~ParsedEq(v[j], x)) - 1
    ELSE NoMatch

\* format!("{}", n) of an unsigned number
RECURSIVE Decimal(_)
Decimal(n) ==
    LET d == <<"0","1","2","3","4","5","6","7","8","9">>[(n % 10) + 1]
    IN IF n < 10 THEN <<d>> ELSE Decimal(n \div 10) \o <<d>>

\* String::replace_range(start..=end, with) asserts that start and end + 1
\* are character boundaries of the string
replace_range_ok(b, start, end) ==
    is_char_boundary(b, start) /\ is_char_boundary(b, end + 1)

\* String::replace_range(start..=end, with) on the bytes of the string
replace_range(b, start, end, with) ==
    SubSeq(b, 1, start) \o with \o SubSeq(b, end + 2, Len(b))

\* One turn of the loop of lines 215-223 for the k-th bind parameter; st is
\* the string so far and the indexes written so far (rightmost first)
RewriteOne(st, bind_params, deduped, file_start, k) ==
    LET bind_param == bind_params[k]
        index == position(deduped, bind_param)
        start == bind_param.start - file_start - 1
        end == bind_param.end - file_start - 1
    IN IF st.tag = "Panic" THEN st
       ELSE IF index = NoMatch THEN Panic("unwrap")
       ELSE IF start < 0 \/ end < 0 THEN Panic("subtract with overflow")
       ELSE IF ~replace_range_ok(st.sql_str, start, end)
            THEN Panic("replace_range")
       ELSE [tag |-> "Ok",
             sql_str |-> replace_range(st.sql_str, start, end,
                                       <<"$">> \o Decimal(index + 1)),
             written |-> <<index + 1>> \o st.written]

\* for bind_param in bind_params.iter().rev()
RECURSIVE Rewrite(_, _, _, _, _)
Rewrite(st, bind_params, deduped, file_start, k) ==
    IF k = 0 THEN st
    ELSE Rewrite(RewriteOne(st, bind_params, deduped, file_start, k),
                 bind_params, deduped, file_start, k - 1)

\* The offset of the first ';' at or after p, or NoMatch
FindSemicolon(s, p) ==
    LET q == none_of_repeated(s, p, {";"})
    IN IF just(s, q, <<";">>) THEN q ELSE NoMatch

\* The spans of the bind parameters in the file: parse_bind() ran on the
\* collected text, whose first character is at file_start
Located(found, file_start) ==
    [i \in 1..Len(found) |->
        [start |-> found[i].start + file_start,
         end |-> found[i].end + file_start,
         value |-> found[i].value]]

\* Self { sql_span, sql_str, bind_params }, or the panic of the loop.
\* written is not a field of QuerySql: it records the index each
\* bind parameter's placeholder was written with, in order of appearance.
QuerySqlSelf(st, bind_params) ==
    IF st.tag = "Panic" THEN st
    ELSE [tag |-> "Ok", sql_str |-> st.sql_str,
          bind_params |-> bind_params, written |-> st.written]

\* Lines 210-228: normalize, rewrite from the last bind parameter to the
\* first, build the QuerySql
RewriteAll(sql_str, bind_params, file_start) ==
    QuerySqlSelf(Rewrite([tag |-> "Ok", sql_str |-> sql_str, written |-> <<>>],
                         bind_params, Normalize(bind_params), file_start,
                         Len(bind_params)),
                 bind_params)

\* The closure of lines 197-229 on the collected text and its span start
QuerySqlOf(text, file_start) ==
    RewriteAll(Utf8Encode(text),
               Located(parse_bind(Utf8Decode(Utf8Encode(text))), file_start),
               file_start)

\* QuerySql::parser at offset p of s: NoMatch without a ';', else the
\* offset after the ';' and the QuerySql (or the panic)
QuerySql_parser(s, p) ==
    LET semi == FindSemicolon(s, p)
    IN IF semi = NoMatch THEN [pos |-> NoMatch]
       ELSE [pos |-> semi + 1, sql |-> QuerySqlOf(SubSeq(s, p + 1, semi), p)]

---------------------------------------------------------------------------
(* parse_nullable_ident, TypeAnnotation::parser *)

\* A parser that builds a value yields [pos |-> NoMatch] or the offset
\* after the match and the value
Failed == [pos |-> NoMatch]

\* One entry: space, ident, '?' or not, "[?]" or not, space
nullable_ident(s, p) ==
    LET from == space(s, p)
        to == ident(s, from)
        null == just(s, to, <<"?">>)
        q == IF null THEN to + 1 ELSE to
        inner_null == just(s, q, <<"[", "?", "]">>)
        r == IF inner_null THEN q + 3 ELSE q
    IN IF to = NoMatch THEN Failed
       ELSE [pos |-> space(s, r),
             val |-> [name |-> Parsed(s, from, to),
                      nullable |-> null,
                      inner_nullable |-> inner_null]]

\* separated_by(just(',')): a comma and an entry are taken together or not
\* at all
RECURSIVE nullable_idents_more(_, _, _)
nullable_idents_more(s, p, acc) ==
    LET it == IF just(s, p, <<",">>) THEN nullable_ident(s, p + 1) ELSE Failed
    IN IF it.pos = NoMatch THEN [pos |-> p, val |-> acc]
       ELSE nullable_idents_more(s, it.pos, Append(acc, it.val))

\* .separated_by(just(',')).allow_trailing(): an entry that fails gives
\* back the space it skipped; the trailing comma is taken after an entry
nullable_idents(s, p) ==
    LET first == nullable_ident(s, p)
        all == nullable_idents_more(s, first.pos, <<first.val>>)
    IN IF first.pos = NoMatch THEN [pos |-> p, val |-> <<>>]
       ELSE IF just(s, all.pos, <<",">>)
            THEN [pos |-> all.pos + 1, val |-> all.val]
            ELSE all

\* .delimited_by(just('('), just(')'))
parse_nullable_ident(s, p) ==
    IF ~just(s, p, <<"(">>) THEN Failed
    ELSE LET list == nullable_idents(s, p + 1)
         IN IF just(s, list.pos, <<")">>)
            THEN [pos |-> list.pos + 1, val |-> list.val]
            ELSE Failed

\* .map(|(name, fields)| Self { name, fields: fields.unwrap_or_default() })
TypeAnnotationSelf(s, from, to, fields) ==
    IF to = NoMatch THEN Failed
    ELSE IF fields.pos = NoMatch
         THEN [pos |-> space(s, to),
               val |-> [name |-> Parsed(s, from, to), fields |-> <<>>]]
         ELSE [pos |-> fields.pos,
               val |-> [name |-> Parsed(s, from, to), fields |-> fields.val]]

\* "--:", space, ident, space, a field list or not
TypeAnnotation_parser(s, p) ==
    IF ~just(s, p, <<"-", "-", ":">>) THEN Failed
    ELSE LET from == space(s, p + 3)
             to == ident(s, from)
         IN TypeAnnotationSelf(s, from, to,
                               parse_nullable_ident(s, space(s, to)))

---------------------------------------------------------------------------
(* QueryDataStruct::parser, QueryAnnotation::parser, Query::parser *)

Implicit(idents) == [kind |-> "Implicit", idents |-> idents]
Named(name) == [kind |-> "Named", name |-> name]

\* .map(|idents| Self::Implicit { idents }).or(ident().map(Self::Named))
QueryDataStructSelf(s, p, list, to) ==
    IF list.pos # NoMatch THEN [pos |-> list.pos, val |-> Implicit(list.val)]
    ELSE IF to # NoMatch THEN [pos |-> to, val |-> Named(Parsed(s, p, to))]
    ELSE Failed

\* A field list, or else an identifier
QueryDataStruct_parser(s, p) ==
    QueryDataStructSelf(s, p, parse_nullable_ident(s, p), ident(s, p))

\* .map(|((name, param), row)| Self { name, param: param.unwrap_or_default(),
\*     row: row.unwrap_or_default() })
QueryAnnotationSelf(s, from, to, param, q, row) ==
    IF to = NoMatch THEN Failed
    ELSE [pos |-> IF row.pos = NoMatch THEN q ELSE row.pos,
          val |-> [name |-> Parsed(s, from, to),
                   param |-> IF param.pos = NoMatch
                             THEN Implicit(<<>>) ELSE param.val,
                   row |-> IF row.pos = NoMatch
                           THEN Implicit(<<>>) ELSE row.val]]

\* After the name and the param at q: ':' space and a row, or not
QueryAnnotation_row(s, from, to, param, q) ==
    QueryAnnotationSelf(s, from, to, param, q,
                        IF just(s, q, <<":">>)
                        THEN QueryDataStruct_parser(s, space(s, q + 1))
                        ELSE Failed)

\* After the name: the space that follows the param, or the name
QueryAnnotation_param(s, from, to, param) ==
    QueryAnnotation_row(s, from, to, param,
                        space(s, IF param.pos = NoMatch THEN space(s, to)
                                 ELSE param.pos))

\* "--!", space, ident, space, a param or not, space, ':' space and a row
\* or not
QueryAnnotation_parser(s, p) ==
    IF ~just(s, p, <<"-", "-", "!">>) THEN Failed
    ELSE LET from == space(s, p + 3)
             to == ident(s, from)
         IN QueryAnnotation_param(s, from, to,
                                  QueryDataStruct_parser(s, space(s, to)))

\* .map(|(annotation, sql)| Self { annotation, sql })
QuerySelf(annotation, q) ==
    IF q.pos = NoMatch THEN Failed
    ELSE [pos |-> q.pos,
          val |-> [annotation |-> annotation.val, sql |-> q.sql]]

\* After the annotation: space, a line end, the SQL
Query_sql(s, annotation) ==
    LET nl == IF annotation.pos = NoMatch THEN NoMatch
              ELSE ln(s, space(s, annotation.pos))
    IN QuerySelf(annotation,
                 IF nl = NoMatch THEN Failed ELSE QuerySql_parser(s, nl))

\* The annotation, space, a line end, the SQL
Query_parser(s, p) == Query_sql(s, QueryAnnotation_parser(s, p))

---------------------------------------------------------------------------
(* parse_query_module *)

\* a.or(b): b's result only when a fails
StatementOr(type, query) ==
    IF type.pos # NoMatch
    THEN [pos |-> type.pos, kind |-> "Type", val |-> type.val]
    ELSE IF query.pos # NoMatch
         THEN [pos |-> query.pos, kind |-> "Query", val |-> query.val]
         ELSE Failed

\* TypeAnnotation::parser().map(Statement::Type)
\*     .or(Query::parser().map(Statement::Query))
Statement(s, p) ==
    StatementOr(TypeAnnotation_parser(s, p), Query_parser(s, p))

\* The statements so far, where the parser stands, and whether a SQL
\* closure panicked
Statements(types, queries, pos, panicked) ==
    [types |-> types, queries |-> queries, pos |-> pos, panicked |-> panicked]

\* What a statement adds (FromIterator for ParsedModule keeps the types and
\* the queries apart, each in the order met)
Push(acc, st) ==
    IF st.kind = "Type"
    THEN Statements(Append(acc.types, st.val), acc.queries, st.pos, FALSE)
    ELSE Statements(acc.types, Append(acc.queries, st.val), st.pos,
                    st.val.sql.tag = "Panic")

\* separated_by(blank()): a blank and a statement are taken together or
\* not at all
RECURSIVE statements_more(_, _)
RECURSIVE statements_push(_, _, _)
statements_push(s, acc, st) ==
    IF acc.panicked \/ st.pos = NoMatch THEN acc
    ELSE statements_more(s, Push(acc, st))

statements_more(s, acc) ==
    statements_push(s, acc, Statement(s, blank(s, acc.pos)))

\* allow_trailing(): the trailing blank is taken after a statement
statements_trailing(s, all) ==
    IF all.panicked THEN all
    ELSE Statements(all.types, all.queries, blank(s, all.pos), FALSE)

\* allow_leading(): the leading blank, then the first statement or none
statements_leading(s, lead, first) ==
    IF first.pos = NoMatch THEN Statements(<<>>, <<>>, lead, FALSE)
    ELSE statements_trailing(
             s, statements_more(s, Push(Statements(<<>>, <<>>, lead, FALSE),
                                        first)))

\* .separated_by(blank()).allow_leading().allow_trailing()
statements(s) == statements_leading(s, blank(s, 0), Statement(s, blank(s, 0)))

\* .then_ignore(end())
end(s, p) == p = Len(s)

\* Result<ParsedModule, Error>, or the panic of a SQL closure.  Without a
\* recovery strategy chumsky reports the one failure that stopped it; what
\* the diagnostic says is not modelled.
ParseResult(file_path, s, all) ==
    IF all.panicked THEN Panic("QuerySql::parser")
    ELSE IF end(s, all.pos)
         THEN [tag |-> "Ok", types |-> all.types, queries |-> all.queries]
         ELSE [tag |-> "Err", path |-> file_path, err |-> <<"Simple">>]

parse_query_module(file_path, s) == ParseResult(file_path, s, statements(s))

---------------------------------------------------------------------------
(* QueryDataStruct::name_and_fields *)

to_uppercase(c) == IF c \in Lower THEN AsciiOrder[Ord(c) - 27] ELSE c
to_lowercase(c) == IF c \in Upper THEN AsciiOrder[Ord(c) + 27] ELSE c

\* heck's capitalize: the first character in upper case, the rest in lower
capitalize(word) ==
    IF word = <<>> THEN <<>>
    ELSE <<to_uppercase(word[1])>>
         \o [i \in 1..(Len(word) - 1) |-> to_lowercase(word[i + 1])]

\* heck's transform on one run of alphanumerics: a word ends after a lower
\* case letter that an upper case one follows, and before the last of a
\* run of upper case letters that a lower case one follows.  w[init+1..]
\* is the word being read, i the character looked at, md the mode.
RECURSIVE camel_run(_, _, _, _)
camel_run(w, init, i, md) ==
    LET c == w[i]
        next == w[i + 1]
        next_mode == IF c \in Lower THEN "Lowercase"
                     ELSE IF c \in Upper THEN "Uppercase" ELSE md
    IN IF i > Len(w) THEN <<>>
       ELSE IF i = Len(w) THEN capitalize(SubSeq(w, init + 1, Len(w)))
       ELSE IF next_mode = "Lowercase" /\ next \in Upper
            THEN capitalize(SubSeq(w, init + 1, i))
                 \o camel_run(w, i, i + 1, "Boundary")
       ELSE IF md = "Uppercase" /\ c \in Upper /\ next \in Lower
            THEN capitalize(SubSeq(w, init + 1, i - 1))
                 \o camel_run(w, i - 1, i + 1, "Boundary")
       ELSE camel_run(w, init, i + 1, next_mode)

\* str::to_upper_camel_case: the runs of alphanumerics, each split into
\* words, every word capitalized, nothing between them
RECURSIVE to_upper_camel_case(_)
to_upper_camel_case(x) ==
    LET to == none_of_repeated(x, 0, {"_"})
    IN IF x = <<>> THEN <<>>
       ELSE camel_run(SubSeq(x, 1, to), 0, 1, "Boundary")
            \o to_upper_camel_case(SubSeq(x, to + 2, Len(x)))

\* name_suffix.unwrap_or_default()
unwrap_or_default(opt) == IF opt = None THEN <<>> ELSE opt.some

\* registered_structs.iter().find_map(|it| (it.name == name)
\*     .then(|| it.fields.clone())).unwrap_or_default()
RECURSIVE find_map(_, _)
find_map(structs, name) ==
    IF structs = <<>> THEN <<>>
    ELSE IF ParsedEq(Head(structs).name, name) THEN Head(structs).fields
    ELSE find_map(Tail(structs), name)

\* The pair (fields, name) returned
name_and_fields(self, structs, name, suffix) ==
    IF self.kind = "Implicit"
    THEN [fields |-> self.idents,
          name |-> [name EXCEPT !.value = to_upper_camel_case(@)
                                          \o unwrap_or_default(suffix)]]
    ELSE [fields |-> find_map(structs, self.name), name |-> self.name]

---------------------------------------------------------------------------
(* The texts the parsers are run on *)

MaxSqlFragments == 4
MaxBindFragments == 5
MaxFieldFragments == 6
MaxModuleFragments == 5
MaxStructs == 3

RECURSIVE Concat(_)
Concat(parts) ==
    IF parts = <<>> THEN <<>> ELSE Head(parts) \o Concat(Tail(parts))

\* The texts made of at most n of the fragments
Texts(fragments, n) ==
    {Concat(parts) : parts \in UNION {[1..k -> fragments] : k \in 0..n}}

\* Pieces of SQL: bind parameters, a lone colon, text, the quote characters,
\* a two-byte character
SqlFragments ==
    { <<":", "a">>,
      <<":", "b">>,
      <<":">>,
      <<" ">>,
      <<"x">>,
      <<"'">>,
      <<"E">>,
      <<"\\">>,
      <<"$">>,
      <<"\"">>,
      <<"<e9>">> }

\* SQL bodies of the documentation and bodies with ten names, a long name,
\* a cast, a numbered placeholder, and placeholders inside a dollar-quoted
\* string and beside a single-quoted one
ExtraBodies ==
    { <<":", "a", " ", ":", "b", " ", ":", "a">>,
      <<"S", "E", "L", "E", "C", "T", " ", "'", "x", ":", "f", "o", "o", "'">>,
      <<"S", "E", "L", "E", "C", "T", " ", "E", "'", "a", ":", "f", "o", "o", "'">>,
      <<"S", "E", "L", "E", "C", "T", " ", "$", "t", "a", "g", "$", ":", "f", "o", "o", "$", "t", "a", "g", "$">>,
      <<":", "j", ",", ":", "i", ",", ":", "h", ",", ":", "g", ",", ":", "f", ",", ":", "e", ",", ":", "d", ",", ":", "c", ",", ":", "b", ",", ":", "a", ",", ":", "j">>,
      <<":", "l", "o", "n", "g", "_", "n", "a", "m", "e", " ", "=", " ", ":", "a">>,
      <<"a", ":", ":", "i", "n", "t", " ", "=", " ", ":", "b">>,
      <<"$", "1", " ", "=", " ", ":", "b">>,
      <<"S", "E", "L", "E", "C", "T", " ", "$", "$", "a", " ", "$", "1", " ", "b", " ", "$", "2", " ", ":", "x", "$", "$">>,
      <<"S", "E", "L", "E", "C", "T", " ", "$", "1", " ", "|", "|", " ", "'", "$", "2", "$", "$", ":", "x", "'">> }

\* Pieces of SQL made of bind parameters only: names, text that lengthens
\* a name, a separator, a two-byte character
BindFragments ==
    { <<":", "a">>,
      <<":", "b">>,
      <<":", "B">>,
      <<" ">>,
      <<"a">>,
      <<"_">>,
      <<"<e9>">> }

\* Pieces of a field list
FieldFragments ==
    { <<"(">>,
      <<")">>,
      <<",">>,
      <<" ">>,
      <<"a">>,
      <<"?">>,
      <<"[", "?", "]">> }

\* Pieces of a query file: the start of a type declaration and of a query,
\* the comment marker, text, a line end, the SQL terminator, a bind
\* parameter (or a colon and a name), a space, a two-byte character
ModuleFragments ==
    { <<"-", "-", ":", "T">>,
      <<"-", "-", "!", "q", "\n">>,
      <<"-", "-">>,
      <<"x">>,
      <<"\n">>,
      <<";">>,
      <<":", "a">>,
      <<" ">>,
      <<"<e9>">> }

\* Query files of the documentation, and one whose SQL holds a two-byte
\* character
ExtraInputs ==
    { <<"-", "-", ":", " ", "F", "o", "o", "(", "a", ",", " ", "b", "?", ",", " ", "c", "[", "?", "]", ")">>,
      <<"-", "-", "!", " ", "g", "e", "t", "_", "u", "s", "e", "r", "\n", "S", "E", "L", "E", "C", "T", " ", "1", ";">>,
      <<"-", "-", "!", "q", " ", "T", ":", "(", "a", ")", "\n", ":", "b", " ", "<e9>", ";", "\n", "-", "-", " ", "n", "o", "t", "e", "\n", "-", "-", ":", "T", "(", "a", ")">>,
      <<"-", "-", "!", "q", "\n", "<e9>", ":", "a", ";">> }

\* Where the SQL may start in its file
SqlStarts == {0, 3}

\* The field lists a declared type may have
FieldLists ==
    LET f(c, n, i) == [name |-> [start |-> 0, end |-> 1, value |-> <<c>>],
                       nullable |-> n, inner_nullable |-> i]
    IN {<<>>, <<f("a", FALSE, FALSE)>>, <<f("a", TRUE, FALSE), f("b", FALSE, TRUE)>>}

TypeNames == {<<"A">>, <<"B">>}

\* The i-th type declared in a file: its name lies past the (i-1)-th's
TypeAt(i, value, fields) ==
    [name |-> [start |-> 10 * i, end |-> 10 * i + 1, value |-> value],
     fields |-> fields]

\* The type lists of at most n types, in file order
StructLists(n) ==
    UNION {{[i \in 1..k |-> TypeAt(i, pick[i][1], pick[i][2])] :
                pick \in [1..k -> TypeNames \X FieldLists]} : k \in 0..n}

\* A reference in a query header that lies between the first type's name
\* and the second's, or an inline field list
DataStructs ==
    {Named([start |-> 15, end |-> 16, value |-> v]) :
         v \in TypeNames \cup {<<"C">>}}
    \cup {Implicit(f) : f \in FieldLists}

QueryNames ==
    {[start |-> 4, end |-> 12,
      value |-> <<"g", "e", "t", "_", "u", "s", "e", "r">>],
     [start |-> 4, end |-> 8, value |-> <<"A", "B", "c", "d">>]}

Suffixes == {None, [some |-> <<"P", "a", "r", "a", "m", "s">>]}

---------------------------------------------------------------------------
(* The state machine: each behaviour makes one call *)

Idle == <<>>

IdleSql == body = Idle /\ sql_start = 0 /\ sql = Idle
IdleFields == fields_in = Idle /\ fields_out = Idle
IdleModule == input = Idle /\ path = Idle /\ module = Idle
IdleResolve ==
    /\ registered_structs = Idle
    /\ data_struct = Idle
    /\ query_name = Idle
    /\ name_suffix = Idle
    /\ resolved = Idle

InitSqlOn(bodies, starts) ==
    /\ mode = "sql"
    /\ pc = "start"
    /\ body \in bodies
    /\ sql_start \in starts
    /\ sql = Idle
    /\ IdleFields /\ IdleModule /\ IdleResolve

InitSql == InitSqlOn(Texts(SqlFragments, MaxSqlFragments) \cup ExtraBodies, SqlStarts)
InitBind == InitSqlOn(Texts(BindFragments, MaxBindFragments), SqlStarts)

InitFields ==
    /\ mode = "fields"
    /\ pc = "start"
    /\ fields_in \in Texts(FieldFragments, MaxFieldFragments)
    /\ fields_out = Idle
    /\ IdleSql /\ IdleModule /\ IdleResolve

InitModule ==
    /\ mode = "module"
    /\ pc = "start"
    /\ input \in Texts(ModuleFragments, MaxModuleFragments) \cup ExtraInputs
    /\ path \in {"queries/module.sql"}
    /\ module = Idle
    /\ IdleSql /\ IdleFields /\ IdleResolve

InitResolve ==
    /\ mode = "resolve"
    /\ pc = "start"
    /\ registered_structs \in StructLists(MaxStructs)
    /\ data_struct \in DataStructs
    /\ query_name \in QueryNames
    /\ name_suffix \in Suffixes
    /\ resolved = Idle
    /\ IdleSql /\ IdleFields /\ IdleModule

\* The file the SQL body lies in: sql_start characters, the body, the ';'
FileOf(text, start) == [i \in 1..start |-> "\n"] \o text \o <<";">>

\* QuerySql::parser on the body at sql_start
ParseSql ==
    /\ mode = "sql" /\ pc = "start"
    /\ sql' = QuerySql_parser(FileOf(body, sql_start), sql_start).sql
    /\ pc' = "done"
    /\ UNCHANGED <<mode, body, sql_start, fields_in, fields_out, input, path,
                   module, registered_structs, data_struct, query_name,
                   name_suffix, resolved>>

\* parse_nullable_ident on the text, from its start
ParseFields ==
    /\ mode = "fields" /\ pc = "start"
    /\ fields_out' = parse_nullable_ident(fields_in, 0)
    /\ pc' = "done"
    /\ UNCHANGED <<mode, body, sql_start, sql, fields_in, input, path, module,
                   registered_structs, data_struct, query_name, name_suffix,
                   resolved>>

\* parse_query_module(path, input)
ParseModule ==
    /\ mode = "module" /\ pc = "start"
    /\ module' = parse_query_module(path, input)
    /\ pc' = "done"
    /\ UNCHANGED <<mode, body, sql_start, sql, fields_in, fields_out, input,
                   path, registered_structs, data_struct, query_name,
                   name_suffix, resolved>>

\* data_struct.name_and_fields(registered_structs, query_name, name_suffix)
Resolve ==
    /\ mode = "resolve" /\ pc = "start"
    /\ resolved' = name_and_fields(data_struct, registered_structs,
                                   query_name, name_suffix)
    /\ pc' = "done"
    /\ UNCHANGED <<mode, body, sql_start, sql, fields_in, fields_out, input,
                   path, module, registered_structs, data_struct, query_name,
                   name_suffix>>

SpecSql == InitSql /\ [][ParseSql]_vars
SpecBind == InitBind /\ [][ParseSql]_vars
SpecFields == InitFields /\ [][ParseFields]_vars
SpecModule == InitModule /\ [][ParseModule]_vars
SpecResolve == InitResolve /\ [][Resolve]_vars

Init == InitSql \/ InitBind \/ InitFields \/ InitModule \/ InitResolve
Next == ParseSql \/ ParseFields \/ ParseModule \/ Resolve
Spec == Init /\ [][Next]_vars

---------------------------------------------------------------------------
(* What the documentation says of a SQL body, read off the text alone *)

\* The index of the first c in s at or after i, or 0
NextAt(s, c, i) ==
    IF \E q \in i..Len(s) : s[q] = c
    THEN CHOOSE q \in i..Len(s) : s[q] = c /\ \A r \in i..(q - 1) : s[r] # c
    ELSE 0

\* The index of the quote that closes a C-style string whose interior
\* starts at q, or 0: \' and '' do not close it
RECURSIVE CStyleClose(_, _)
CStyleClose(s, q) ==
    IF q > Len(s) THEN 0
    ELSE IF q < Len(s) /\ s[q] \in {"\\", "'"} /\ s[q + 1] = "'"
         THEN CStyleClose(s, q + 2)
    ELSE IF s[q] = "'" THEN q
    ELSE CStyleClose(s, q + 1)

\* The index of the last character of the terminator of the dollar-quoted
\* string opened at i, or 0: the terminator is the next occurrence of the
\* opening $tag$ itself
DollarClose(s, i) ==
    LET j == NextAt(s, "$", i + 1)
        n == j - i + 1
        same(q) == q + n - 1 <= Len(s) /\ SubSeq(s, q, q + n - 1) = SubSeq(s, i, j)
    IN IF j = 0 \/ ~\E q \in (j + 1)..Len(s) : same(q) THEN 0
       ELSE (CHOOSE q \in (j + 1)..Len(s) :
                 same(q) /\ \A r \in (j + 1)..(q - 1) : ~same(r)) + n - 1

\* The index of the last character of the identifier that starts at i
IdentEnd(s, i) ==
    CHOOSE q \in i..Len(s) :
        /\ \A r \in (i + 1)..q : is_ascii_alphanumeric(s[r]) \/ s[r] = "_"
        /\ q = Len(s) \/ ~(is_ascii_alphanumeric(s[q + 1]) \/ s[q + 1] = "_")

Token(kind, from, to) == [kind |-> kind, from |-> from, to |-> to]

\* The quoted constructs and the bind parameters of s from index i on, left
\* to right: a construct that is never closed quotes nothing, and its
\* first character is ordinary text
RECURSIVE Lex(_, _)
Lex(s, i) ==
    LET c == s[i]
        quoted(kind, to) == <<Token(kind, i, to)>> \o Lex(s, to + 1)
    IN IF i > Len(s) THEN <<>>
       ELSE IF c \in {"e", "E"} /\ i < Len(s) /\ s[i + 1] = "'"
               /\ CStyleClose(s, i + 2) # 0
            THEN quoted("c_style_string", CStyleClose(s, i + 2))
       ELSE IF c = "'" /\ NextAt(s, "'", i + 1) # 0
            THEN quoted("string", NextAt(s, "'", i + 1))
       ELSE IF c = "\"" /\ NextAt(s, "\"", i + 1) # 0
            THEN quoted("constant", NextAt(s, "\"", i + 1))
       ELSE IF c = "$" /\ DollarClose(s, i) # 0
            THEN quoted("dollar_quoted", DollarClose(s, i))
       ELSE IF c = ":" /\ i < Len(s) /\ is_ascii_alphabetic(s[i + 1])
            THEN quoted("bind", IdentEnd(s, i + 1))
       ELSE Lex(s, i + 1)

Tokens(s, kinds) ==
    LET all == Lex(s, 1)
    IN {all[k] : k \in {k \in 1..Len(all) : all[k].kind \in kinds}}

\* The k-th recorded bind parameter as indexes of the body: its colon and
\* the last character of its name
ColonOf(k) == sql.bind_params[k].start - sql_start
LastOf(k) == sql.bind_params[k].end - sql_start

\* Whether a occurs before b in lexicographic order
LexBefore(a, b) ==
    \E k \in 1..Len(b) :
        /\ \A r \in 1..(k - 1) : r <= Len(a) /\ a[r] = b[r]
        /\ k > Len(a) \/ Ord(a[k]) < Ord(b[k])

\* 1 + the rank of a name among the recorded names, sorted, each once
Rank(value) ==
    1 + Cardinality({sql.bind_params[k].value : k \in 1..Len(sql.bind_params)}
                    \cap {w \in {sql.bind_params[k].value :
                                     k \in 1..Len(sql.bind_params)} :
                              LexBefore(w, value)})

Count(s, c) == Cardinality({i \in 1..Len(s) : s[i] = c})

SqlDone == mode = "sql" /\ pc = "done"
SqlOk == SqlDone /\ sql.tag = "Ok"

\* The body with the recorded bind parameters k.. replaced, from index i on
RECURSIVE Rewritten(_, _)
Rewritten(k, i) ==
    IF k > Len(sql.bind_params) THEN SubSeq(body, i, Len(body))
    ELSE SubSeq(body, i, ColonOf(k) - 1)
         \o <<"$">> \o Decimal(Rank(sql.bind_params[k].value))
         \o Rewritten(k + 1, LastOf(k) + 1)

IsAscii(s) == \A i \in 1..Len(s) : s[i] # "<e9>"

---------------------------------------------------------------------------
(* The claims *)

\* C1: the placeholder written for a recorded bind parameter is $k, k being
\* 1 + the rank of its name among the recorded names sorted
\* lexicographically and taken once: equal names get equal indexes and no
\* others do, the indexes are exactly 1..n for n names, and the order of
\* first appearance plays no role.  bind_params holds every occurrence,
\* duplicates included, in order of appearance.  Where the body is ASCII
\* the placeholders stand in sql_str where the occurrences stood.
C1_CanonicalIndex ==
    SqlOk =>
        LET bp == sql.bind_params
            n == Len(bp)
            names == {bp[k].value : k \in 1..n}
        IN /\ Len(sql.written) = n
           /\ \A k \in 1..n : sql.written[k] = Rank(bp[k].value)
           /\ \A k, l \in 1..n :
                  sql.written[k] = sql.written[l] <=> bp[k].value = bp[l].value
           /\ {sql.written[k] : k \in 1..n} = 1..Cardinality(names)
           /\ \A k \in 1..n :
                  /\ body[ColonOf(k)] = ":"
                  /\ SubSeq(body, ColonOf(k) + 1, LastOf(k)) = bp[k].value
                  /\ k < n => LastOf(k) < ColonOf(k + 1)
           /\ IsAscii(body) => sql.sql_str = Rewritten(1, 1)

\* C1: a body :x .. :y .. :x whose second name sorts first has been parsed
C1_Witness ==
    /\ SqlOk
    /\ Len(sql.bind_params) = 3
    /\ sql.written = <<2, 1, 2>>
    /\ sql.bind_params[1].value = sql.bind_params[3].value

\* C8: a Named reference resolves to the fields of the first declared type
\* of that name, the names compared by value (a type declared after the
\* query resolves like one declared before it), and to no fields when no
\* type has that name; the name returned is the reference itself, without
\* the suffix.
C8_NamedResolution ==
    (mode = "resolve" /\ pc = "done" /\ data_struct.kind = "Named") =>
        LET ref == data_struct.name
            hits == {i \in 1..Len(registered_structs) :
                         registered_structs[i].name.value = ref.value}
        IN /\ resolved.name = ref
           /\ hits = {} => resolved.fields = <<>>
           /\ hits # {} =>
                  \E i \in hits :
                      /\ \A j \in hits : i <= j
                      /\ resolved.fields = registered_structs[i].fields

\* C8: a reference has been resolved to the fields of a type declared after
\* it, a second type of that name with other fields following
C8_Witness ==
    /\ mode = "resolve" /\ pc = "done" /\ data_struct.kind = "Named"
    /\ resolved.fields # <<>>
    /\ \E i, j \in 1..Len(registered_structs) :
           /\ i < j
           /\ registered_structs[i].name.start > data_struct.name.start
           /\ registered_structs[i].name.value = data_struct.name.value
           /\ registered_structs[j].name.value = data_struct.name.value
           /\ registered_structs[i].fields = resolved.fields
           /\ registered_structs[j].fields # resolved.fields
           /\ \A h \in 1..(i - 1) :
                  registered_structs[h].name.value # data_struct.name.value

\* The recorded bind parameters that lie inside a token
Inside(tok) ==
    {k \in 1..Len(sql.bind_params) :
         tok.from <= ColonOf(k) /\ LastOf(k) <= tok.to}

\* How far the text at index i has moved in sql_str: what the rewriting of
\* the bind parameters recorded before it has added
Moved(i) ==
    LET before == {k \in 1..Len(sql.bind_params) : LastOf(k) < i}
        RECURSIVE sum(_)
        sum(ks) ==
            IF ks = {} THEN 0
            ELSE LET k == CHOOSE k \in ks : TRUE
                 IN Len(Decimal(sql.written[k]))
                    - Len(sql.bind_params[k].value) + sum(ks \ {k})
    IN sum(before)

\* The token's text stands in sql_str as it stood in the body
Kept(tok) ==
    /\ tok.to + Moved(tok.from) <= Len(sql.sql_str)
    /\ SubSeq(sql.sql_str, tok.from + Moved(tok.from), tok.to + Moved(tok.from))
           = SubSeq(body, tok.from, tok.to)

\* C2: the text from an opening $tag$ to the next occurrence of the same
\* $tag$ is opaque, whatever it holds: no recorded bind parameter lies
\* inside it and sql_str holds it unchanged.
C2_DollarQuotedOpaque ==
    (SqlOk /\ IsAscii(body)) =>
        \A tok \in Tokens(body, {"dollar_quoted"}) :
            Inside(tok) = {} /\ Kept(tok)

\* C3: no recorded bind parameter lies inside a single-quoted string or a
\* C-style escaped string, and a body whose only :ident tokens lie inside
\* such strings yields no bind parameter and an unchanged sql_str.
C3_StringsOpaque ==
    SqlOk =>
        LET strings == Tokens(body, {"string", "c_style_string"})
            colons == {i \in 1..(Len(body) - 1) :
                           body[i] = ":" /\ is_ascii_alphabetic(body[i + 1])}
        IN /\ \A tok \in strings : Inside(tok) = {}
           /\ (\A i \in colons : \E tok \in strings : tok.from < i /\ i < tok.to)
                  => sql.bind_params = <<>> /\ sql.sql_str = Utf8Encode(body)

\* C4: every :ident outside the quoted constructs is recorded, in order of
\* appearance, wherever it lies: after a cast, a lone colon, a '$' that
\* opens no dollar-quoted string, a quote that is never closed.
C4_EveryBindRecorded ==
    SqlOk =>
        LET binds == Tokens(body, {"bind"})
        IN /\ Len(sql.bind_params) = Cardinality(binds)
           /\ \A tok \in binds :
                  \E k \in 1..Len(sql.bind_params) :
                      ColonOf(k) = tok.from /\ LastOf(k) = tok.to

\* C5: sql_str is the body with exactly the recorded :name occurrences
\* replaced by $<index>, every other character kept in order, also where a
\* replacement differs in length from what it replaces and where two-byte
\* characters stand before a bind parameter.
C5_ExactRewrite ==
    SqlOk => sql.sql_str = Utf8Encode(Rewritten(1, 1))

---------------------------------------------------------------------------
(* What the documentation says of a field list and of a query file *)

RECURSIVE SkipSpace(_, _)
SkipSpace(s, i) ==
    IF i <= Len(s) /\ s[i] \in {" ", "\t"} THEN SkipSpace(s, i + 1) ELSE i

\* The index of the last character of the entry (an identifier, '?' or
\* not, "[?]" or not) that starts at i, or 0
EntryEnd(s, i) ==
    IF i > Len(s) \/ ~is_ascii_alphabetic(s[i]) THEN 0
    ELSE LET a == IdentEnd(s, i)
             b == IF a < Len(s) /\ s[a + 1] = "?" THEN a + 1 ELSE a
         IN IF b + 3 <= Len(s) /\ SubSeq(s, b + 1, b + 3) = <<"[", "?", "]">>
            THEN b + 3 ELSE b

\* The number of entries of the field list that s is, or NoMatch: '(',
\* entries separated by commas, a comma or not after the last, ')', with
\* spaces and tabs between any two of these; i is where the next entry or
\* the ')' is looked for, n the entries so far
RECURSIVE FieldListFrom(_, _, _)
FieldListFrom(s, i, n) ==
    LET at == SkipSpace(s, i)
        last == EntryEnd(s, at)
        then == SkipSpace(s, last + 1)
    IN IF at = Len(s) /\ s[at] = ")" THEN n
       ELSE IF last = 0 \/ then > Len(s) THEN NoMatch
       ELSE IF s[then] = "," THEN FieldListFrom(s, then + 1, n + 1)
       ELSE IF then = Len(s) /\ s[then] = ")" THEN n + 1
       ELSE NoMatch

FieldList(s) ==
    IF Len(s) >= 2 /\ s[1] = "(" THEN FieldListFrom(s, 2, 0) ELSE NoMatch

\* C6: parse_nullable_ident accepts every parenthesized, comma-separated
\* list of entries with optional spaces around each token, with or without
\* a trailing comma, and the empty list, and yields one NullableIdent per
\* entry in the order written.
C6_FieldListAccepted ==
    (mode = "fields" /\ pc = "done" /\ FieldList(fields_in) # NoMatch) =>
        /\ fields_out.pos = Len(fields_in)
        /\ Len(fields_out.val) = FieldList(fields_in)
        /\ \A k \in 1..(Len(fields_out.val) - 1) :
               fields_out.val[k].name.end <= fields_out.val[k + 1].name.start

ModuleDone == mode = "module" /\ pc = "done"

\* An Error of the file: its path, a diagnostic or more, and no module
IsError(m) ==
    /\ DOMAIN m = {"tag", "path", "err"}
    /\ m.tag = "Err"
    /\ m.path = path
    /\ Len(m.err) >= 1

\* The text after the last c of s (all of s when it holds none)
After(s, c) ==
    LET at == {i \in 1..Len(s) : s[i] = c}
        last == IF at = {} THEN 0 ELSE CHOOSE i \in at : \A j \in at : j <= i
    IN SubSeq(s, last + 1, Len(s))

\* Content remains after the last statement: the last line holds no '-',
\* so that it is no comment and starts no declaration, and what follows
\* its last ';' is not blank
ContentRemains(s) ==
    LET line == After(s, "\n")
        rest == After(line, ";")
    IN /\ \A i \in 1..Len(line) : line[i] # "-"
       /\ \E i \in 1..Len(rest) : ~is_whitespace(rest[i])

\* A query header starts the file and no ';' follows it
Unterminated(s) ==
    LET header == QueryAnnotation_parser(s, 0)
    IN /\ header.pos # NoMatch
       /\ ln(s, space(s, header.pos)) # NoMatch
       /\ \A i \in 1..Len(s) : s[i] # ";"

\* C7: a ParsedModule is returned only when the whole input was consumed as
\* statements and blanks; when a query header's SQL has no ';' or content
\* remains, the result is an Error with the path and a diagnostic or more,
\* and no module.
C7_ErrorOrWholeInput ==
    ModuleDone =>
        /\ module.tag = "Ok" => statements(input).pos = Len(input)
        /\ (\/ Unterminated(input)
            \/ ContentRemains(input)
            \/ statements(input).pos # Len(input)) => IsError(module)

\* A result without its spans
FieldsShape(idents) ==
    [k \in 1..Len(idents) |->
        <<idents[k].name.value, idents[k].nullable, idents[k].inner_nullable>>]

DataShape(d) ==
    IF d.kind = "Named" THEN <<"Named", d.name.value>>
    ELSE <<"Implicit", FieldsShape(d.idents)>>

Shape(m) ==
    IF m.tag # "Ok" THEN <<m.tag>>
    ELSE <<m.tag,
           [k \in 1..Len(m.types) |->
               <<m.types[k].name.value, FieldsShape(m.types[k].fields)>>],
           [k \in 1..Len(m.queries) |->
               <<m.queries[k].annotation.name.value,
                 DataShape(m.queries[k].annotation.param),
                 DataShape(m.queries[k].annotation.row),
                 m.queries[k].sql.sql_str,
                 [l \in 1..Len(m.queries[k].sql.bind_params) |->
                     m.queries[k].sql.bind_params[l].value]>>]>>

\* A statement may start at offset p: what precedes is a file of its own
Boundary(s, p) == parse_query_module(path, SubSeq(s, 1, p)).tag = "Ok"

\* "--" at offset p that neither ':' nor '!' follows
OrdinaryComment(s, p) ==
    /\ just(s, p, <<"-", "-">>)
    /\ p + 2 < Len(s) => s[p + 3] \notin {":", "!"}

\* s without the comment that starts at offset p and runs to the end of
\* its line
Without(s, p) ==
    SubSeq(s, 1, p) \o SubSeq(s, none_of_repeated(s, p + 2, {"\n"}) + 1, Len(s))

\* C9: before, between and after statements a "--" comment that neither ':'
\* nor '!' follows is skipped to the end of its line and does not change
\* the result, also when "--" ends the input or a line end follows it at
\* once; "--:" and "--!" there are not skipped.
C9_CommentsTransparent ==
    ModuleDone =>
        \A p \in 0..(Len(input) - 2) :
            Boundary(input, p) =>
                /\ OrdinaryComment(input, p) =>
                       Shape(module)
                           = Shape(parse_query_module(path, Without(input, p)))
                /\ (just(input, p, <<"-", "-", ":">>)
                        \/ just(input, p, <<"-", "-", "!">>)) =>
                       blank(input, p) = p

\* C10: parse_query_module returns Ok or Err for every input and never
\* panics.
C10_NeverPanics == ModuleDone => module.tag \in {"Ok", "Err"}

====
